---- MODULE Spec2Model ----
(***************************************************************************)
(* CxxFlutterSwift.cpp: the block adapters over the desktop engine's       *)
(* function-pointer messenger API.                                         *)
(*                                                                         *)
(*   - FlutterDesktopMessengerSendWithReplyBlock and its reply thunk       *)
(*   - FlutterDesktopMessengerSetCallbackBlock, its channel thunk, the     *)
(*     table flutterSwiftCallbacks and the mutex guarding it               *)
(*                                                                         *)
(* Callback objects (blocks) are numbered.  A block a caller passes is     *)
(* either scope-bound (a stack block: _Block_copy makes a heap copy, a     *)
(* different object from the one passed) or already on the heap            *)
(* (_Block_copy retains it and returns the same pointer).  The reference   *)
(* count of heap object k counts the references this component took, and   *)
(* is kept per owner (the channel it was promoted for, or the reply path). *)
(***************************************************************************)
EXTENDS Integers, Sequences, FiniteSets, TLC

\* Bounds of the model.
MaxBlocks == 2        \* callback objects callers create
MaxRetain == 2        \* references taken on one object by re-installing it
MaxDeliveries == 2    \* times the engine is made to deliver one reply

Threads == {"t1", "t2"}
Messengers == {"M1", "M2"}
Channels == {"a", "b"}
Messages == {"x", "y"}

ReplyOwner == "reply"
Owners == Channels \cup {ReplyOwner}

\* Pointers.
NULL == [kind |-> "null", id |-> 0]
StackPtr(k) == [kind |-> "stack", id |-> k]
HeapPtr(k) == [kind |-> "heap", id |-> k]
\* What a std::map lookup finds for a key that is not in the map.
Absent == [kind |-> "absent", id |-> 0]
\* Ghost value: _Block_release / the engine call has not been made.
NotCalled == [kind |-> "notcalled", id |-> 0]

\* Function pointers.
NullFn == "nullptr"
ReplyThunkFn == "FlutterDesktopMessengerBinaryReplyThunk"
CallbackThunkFn == "FlutterDesktopMessageCallbackThunk"

VARIABLES
    blocks,                     \* callback objects: [type, home, held]
    replies,                    \* the engine's reply registrations (+ ghost counts)
    flutterSwiftCallbacks,      \* std::map<std::string, const void*>
    flutterSwiftCallbacksMutex, \* the thread holding the mutex, or "free"
    engineCallbacks,            \* the engine's (fn, user_data) per messenger, channel
    pc,                         \* each thread's place in SetCallbackBlock
    messenger, channel, callbackBlock,  \* its arguments
    savedCallbackBlock,         \* its local (line 69)
    released,                   \* ghost: what it passed to _Block_release
    registered,                 \* ghost: what it passed to the engine
    before,                     \* ghost: the state when it took the lock
    lastSet,                    \* ghost: the last completed set per channel
    lastSend,                   \* ghost: the last SendWithReplyBlock call
    lastCall,                   \* ghost: the last inbound message dispatch
    fault                       \* the process has crashed (undefined behaviour)

setVars == <<pc, messenger, channel, callbackBlock, savedCallbackBlock,
             released, registered, before, lastSet>>
vars == <<blocks, replies, flutterSwiftCallbacks, flutterSwiftCallbacksMutex,
          engineCallbacks, pc, messenger, channel, callbackBlock,
          savedCallbackBlock, released, registered, before, lastSet,
          lastSend, lastCall, fault>>

-----------------------------------------------------------------------------
\* The Blocks runtime.

RECURSIVE SumHeld(_, _)
SumHeld(held, S) ==
    IF S = {} THEN 0
    ELSE LET o == CHOOSE x \in S : TRUE
         IN held[o] + SumHeld(held, S \ {o})

\* The reference count of heap object k.
Rc(bs, k) == SumHeld(bs[k].held, Owners)

NoRefs == [o \in Owners |-> 0]

\* A new callback object in the caller's hands, not yet seen by _Block_copy.
\* home: "heap" (the caller's block is a heap block) or "stack" (scope-bound).
NewBlock(type, onStack) ==
    [type |-> type, home |-> IF onStack THEN "stack" ELSE "heap", held |-> NoRefs]

\* The pointer _Block_copy returns: the heap copy of a stack block, the
\* same pointer for a heap block, NULL for NULL.
BlockCopyResult(p) == IF p.kind = "stack" THEN HeapPtr(p.id) ELSE p

\* _Block_copy's effect on the reference counts (on behalf of owner o).
BlockCopy(bs, p, o) ==
    IF p.kind \in {"stack", "heap"}
    THEN [bs EXCEPT ![p.id].held[o] = @ + 1]
    ELSE bs

\* (mutant) a release drops two references.
BlockReleaseTwice(bs, p, o) ==
    IF p.kind = "heap"
    THEN [bs EXCEPT ![p.id].held[o] = @ - 2]
    ELSE bs

\* _Block_release: nothing for NULL, a decrement for a heap block.
BlockRelease(bs, p, o) ==
    IF p.kind = "heap"
    THEN [bs EXCEPT ![p.id].held[o] = @ - 1]
    ELSE bs

\* The heap object p refers to is retained by this component.
Retained(bs, p) == p.kind = "heap" /\ Rc(bs, p.id) > 0

\* Calling through p is sure to be defined: p is a heap object this
\* component still holds, or a stack block whose caller is still inside the
\* call it passed the block to (after the call the caller may leave the
\* block's scope at any time).
Callable(bs, p) ==
    \/ Retained(bs, p)
    \/ p.kind = "stack" /\ \E t \in Threads : callbackBlock[t] = p

-----------------------------------------------------------------------------
\* The engine (external): its two registration primitives.

NoReg == [fn |-> NullFn, ctx |-> NULL]

\* FlutterDesktopMessengerSendWithReply: on success with a reply function
\* the engine keeps (fn, user_data) for the reply; on failure it keeps nothing.
EngineSendWithReply(rs, fn, ctx, ok) ==
    IF ok /\ fn # NullFn
    THEN Append(rs, [fn |-> fn, ctx |-> ctx, deliveries |-> 0, invoked |-> 0,
                     pc |-> "wait"])
    ELSE rs

\* (mutant) the engine is not told.
EngineSetCallbackLost(ec, m, ch, fn, ctx) == ec

\* FlutterDesktopMessengerSetCallback.
EngineSetCallback(ec, m, ch, fn, ctx) ==
    [ec EXCEPT ![m][ch] = [fn |-> fn, ctx |-> ctx]]

-----------------------------------------------------------------------------
\* std::map<std::string, const void*>

\* operator[]: the map after the access (a missing key is inserted with a
\* value-initialised, null, pointer).
MapIndex(mp, ch) == IF mp[ch] = Absent THEN [mp EXCEPT ![ch] = NULL] ELSE mp
\* (mutant) the assignment is lost.
MapAssignNothing(mp, ch, p) == mp

MapAssign(mp, ch, p) == [mp EXCEPT ![ch] = p]
\* (mutant) erase empties the whole map, as clear() would.
MapEraseAll(mp, ch) == [c \in DOMAIN mp |-> Absent]

MapErase(mp, ch) == [mp EXCEPT ![ch] = Absent]

-----------------------------------------------------------------------------
NoSend == [fn |-> "none", ctx |-> NULL, ok |-> FALSE, ret |-> FALSE,
           calls |-> 0, replyBlock |-> NULL]
NoCall == [invoked |-> FALSE, dropped |-> FALSE, forwarded |-> FALSE,
           callable |-> FALSE, retained |-> FALSE]
NoSet == [messenger |-> "none", block |-> NULL]
NoBefore == [table |-> << >>, blocks |-> << >>, engine |-> << >>]

Init ==
    /\ blocks = << >>
    /\ replies = << >>
    /\ flutterSwiftCallbacks = [ch \in Channels |-> Absent]
    /\ flutterSwiftCallbacksMutex = "free"
    /\ engineCallbacks = [m \in Messengers |-> [ch \in Channels |-> NoReg]]
    /\ pc = [t \in Threads |-> "idle"]
    /\ messenger = [t \in Threads |-> "none"]
    /\ channel = [t \in Threads |-> "none"]
    /\ callbackBlock = [t \in Threads |-> NULL]
    /\ savedCallbackBlock = [t \in Threads |-> NULL]
    /\ released = [t \in Threads |-> NotCalled]
    /\ registered = [t \in Threads |-> NotCalled]
    /\ before = [t \in Threads |-> NoBefore]
    /\ lastSet = [ch \in Channels |-> NoSet]
    /\ lastSend = NoSend
    /\ lastCall = NoCall
    /\ fault = FALSE

-----------------------------------------------------------------------------
\* FlutterDesktopMessengerSendWithReplyBlock (lines 33-45)

\* line 43
ReplyFunction(replyBlock) ==
    IF replyBlock # NULL THEN ReplyThunkFn ELSE NullFn

\* line 44
ReplyContext(replyBlock) ==
    IF replyBlock # NULL THEN BlockCopyResult(replyBlock) ELSE NULL

\* (mutant) the reply handler is passed on without being promoted.
ReplyCopyNothing(bs, replyBlock) == bs

\* line 44: the reference counts after the argument is evaluated
ReplyCopy(bs, replyBlock) ==
    IF replyBlock # NULL THEN BlockCopy(bs, replyBlock, ReplyOwner) ELSE bs

\* (mutant) the primitive's result is dropped and success reported.
SendResultAlwaysTrue(ok) == TRUE

\* line 39: what the function returns, given the primitive's result
SendResult(ok) == ok

\* The whole call with reply block replyBlock (already in bs), the primitive
\* answering ok.
SendWithReplyBlock(bs, replyBlock, ok) ==
    /\ blocks' = ReplyCopy(bs, replyBlock)
    /\ replies' = EngineSendWithReply(replies, ReplyFunction(replyBlock),
                                      ReplyContext(replyBlock), ok)
    /\ lastSend' = [fn |-> ReplyFunction(replyBlock),
                    ctx |-> ReplyContext(replyBlock),
                    ok |-> ok, ret |-> SendResult(ok), calls |-> 1,
                    replyBlock |-> replyBlock]
    /\ UNCHANGED <<flutterSwiftCallbacks, flutterSwiftCallbacksMutex,
                   engineCallbacks, setVars, lastCall, fault>>

\* A send without a reply handler.
SendNoReply(ok) ==
    /\ ~fault
    /\ SendWithReplyBlock(blocks, NULL, ok)

\* A send with a reply handler the caller made for this send, scope-bound
\* or already on the heap.
SendReply(onStack, ok) ==
    /\ ~fault
    /\ Len(blocks) < MaxBlocks
    /\ LET k == Len(blocks) + 1
           p == IF onStack THEN StackPtr(k) ELSE HeapPtr(k)
       IN SendWithReplyBlock(Append(blocks, NewBlock("reply", onStack)), p, ok)

-----------------------------------------------------------------------------
\* FlutterDesktopMessengerBinaryReplyThunk (lines 25-31), run by the engine
\* with the user_data it was given.

\* lines 28-29: the block is called.  Calling a block that has already been
\* deallocated is undefined: the call goes through, or the process crashes.
ReplyThunkCall(i) ==
    /\ ~fault
    /\ replies[i].pc = "wait"
    /\ replies[i].deliveries < MaxDeliveries
    /\ \/ /\ replies' = [replies EXCEPT ![i].deliveries = @ + 1,
                                        ![i].invoked = @ + 1,
                                        ![i].pc = "l30"]
          /\ UNCHANGED fault
       \/ /\ ~Callable(blocks, replies[i].ctx)
          /\ fault' = TRUE
          /\ UNCHANGED replies
    /\ UNCHANGED <<blocks, flutterSwiftCallbacks, flutterSwiftCallbacksMutex,
                   engineCallbacks, setVars, lastSend, lastCall>>

\* line 30
ReplyThunkRelease(i) ==
    /\ ~fault
    /\ replies[i].pc = "l30"
    /\ blocks' = BlockRelease(blocks, replies[i].ctx, ReplyOwner)
    /\ replies' = [replies EXCEPT ![i].pc = "wait"]
    /\ UNCHANGED <<flutterSwiftCallbacks, flutterSwiftCallbacksMutex,
                   engineCallbacks, setVars, lastSend, lastCall, fault>>

-----------------------------------------------------------------------------
\* FlutterDesktopMessengerSetCallbackBlock (lines 60-74), one step per
\* statement; thread t is the caller.

\* (mutant) the mutex is never found taken.
MutexFreeAlways(mutex) == TRUE

\* line 64: std::lock_guard takes the mutex when it is free (a caller that
\* finds it taken has not got past line 64 and is not in the body yet).
MutexFree(mutex) == mutex = "free"

\* The call is made with handler p and the mutex is taken.
Enter(t, m, ch, p) ==
    /\ pc[t] = "idle"
    /\ MutexFree(flutterSwiftCallbacksMutex)
    /\ flutterSwiftCallbacksMutex' = t
    /\ before' = [before EXCEPT ![t] = [table |-> flutterSwiftCallbacks,
                                        blocks |-> blocks,
                                        engine |-> engineCallbacks]]
    /\ pc' = [pc EXCEPT ![t] = "l65"]
    /\ messenger' = [messenger EXCEPT ![t] = m]
    /\ channel' = [channel EXCEPT ![t] = ch]
    /\ callbackBlock' = [callbackBlock EXCEPT ![t] = p]
    /\ UNCHANGED <<replies, flutterSwiftCallbacks, engineCallbacks,
                   savedCallbackBlock, released, registered, lastSet,
                   lastSend, lastCall, fault>>

\* Called with a null handler (clear).
SetCallNull(t, m, ch) ==
    /\ ~fault
    /\ Enter(t, m, ch, NULL)
    /\ UNCHANGED blocks

\* Called with a handler the caller made for this call, scope-bound or
\* already on the heap.
SetCallNew(t, m, ch, onStack) ==
    /\ ~fault
    /\ Len(blocks) < MaxBlocks
    /\ LET k == Len(blocks) + 1
       IN /\ Enter(t, m, ch, IF onStack THEN StackPtr(k) ELSE HeapPtr(k))
          /\ blocks' = Append(blocks, NewBlock("handler", onStack))

\* Called with a heap handler the caller has passed before.
SetCallSame(t, m, ch, k) ==
    /\ ~fault
    /\ blocks[k].type = "handler"
    /\ blocks[k].home = "heap"
    /\ Rc(blocks, k) < MaxRetain
    /\ Enter(t, m, ch, HeapPtr(k))
    /\ UNCHANGED blocks

\* The same calls with the wait for the mutex shown: the call is made with
\* handler p and the caller stands at line 64 until the mutex is free.
Call(t, m, ch, p) ==
    /\ pc[t] = "idle"
    /\ pc' = [pc EXCEPT ![t] = "l64"]
    /\ messenger' = [messenger EXCEPT ![t] = m]
    /\ channel' = [channel EXCEPT ![t] = ch]
    /\ callbackBlock' = [callbackBlock EXCEPT ![t] = p]
    /\ UNCHANGED <<replies, flutterSwiftCallbacks, flutterSwiftCallbacksMutex,
                   engineCallbacks, savedCallbackBlock, released, registered,
                   before, lastSet, lastSend, lastCall, fault>>

CallNull(t, m, ch) ==
    /\ ~fault
    /\ Call(t, m, ch, NULL)
    /\ UNCHANGED blocks

CallNew(t, m, ch, onStack) ==
    /\ ~fault
    /\ Len(blocks) < MaxBlocks
    /\ LET k == Len(blocks) + 1
       IN /\ Call(t, m, ch, IF onStack THEN StackPtr(k) ELSE HeapPtr(k))
          /\ blocks' = Append(blocks, NewBlock("handler", onStack))

CallSame(t, m, ch, k) ==
    /\ ~fault
    /\ blocks[k].type = "handler"
    /\ blocks[k].home = "heap"
    /\ Rc(blocks, k) < MaxRetain
    /\ Call(t, m, ch, HeapPtr(k))
    /\ UNCHANGED blocks

\* line 64: the guard's constructor returns with the mutex taken.
Lock(t) ==
    /\ ~fault
    /\ pc[t] = "l64"
    /\ MutexFree(flutterSwiftCallbacksMutex)
    /\ flutterSwiftCallbacksMutex' = t
    /\ before' = [before EXCEPT ![t] = [table |-> flutterSwiftCallbacks,
                                        blocks |-> blocks,
                                        engine |-> engineCallbacks]]
    /\ pc' = [pc EXCEPT ![t] = "l65"]
    /\ UNCHANGED <<blocks, replies, flutterSwiftCallbacks, engineCallbacks,
                   messenger, channel, callbackBlock, savedCallbackBlock,
                   released, registered, lastSet, lastSend, lastCall, fault>>

\* line 66: the table after  flutterSwiftCallbacks[channel] = _Block_copy(..)
StoreCallback(mp, ch, cb) ==
    MapAssign(MapIndex(mp, ch), ch, BlockCopyResult(cb))

\* (mutant) the handler is stored without being promoted.
StoreCopyNothing(bs, ch, cb, old) == bs

\* line 66: the reference counts after it
StoreCopy(bs, ch, cb, old) == BlockCopy(bs, cb, ch)

\* lines 65-66
SetStore(t) ==
    /\ ~fault
    /\ pc[t] = "l65"
    /\ callbackBlock[t] # NULL
    /\ blocks' = StoreCopy(blocks, channel[t], callbackBlock[t],
                           flutterSwiftCallbacks[channel[t]])
    /\ flutterSwiftCallbacks' =
           StoreCallback(flutterSwiftCallbacks, channel[t], callbackBlock[t])
    /\ pc' = [pc EXCEPT ![t] = "l67"]
    /\ UNCHANGED <<replies, flutterSwiftCallbacksMutex, engineCallbacks,
                   messenger, channel, callbackBlock, savedCallbackBlock,
                   released, registered, before, lastSet, lastSend, lastCall,
                   fault>>

\* line 67: the user_data handed to the engine
RegisteredContext(cb) == cb

\* line 67
SetRegister(t) ==
    /\ ~fault
    /\ pc[t] = "l67"
    /\ engineCallbacks' =
           EngineSetCallback(engineCallbacks, messenger[t], channel[t],
                             CallbackThunkFn, RegisteredContext(callbackBlock[t]))
    /\ registered' = [registered EXCEPT
                         ![t] = [fn |-> CallbackThunkFn,
                                 ctx |-> RegisteredContext(callbackBlock[t])]]
    /\ pc' = [pc EXCEPT ![t] = "l74"]
    /\ UNCHANGED <<blocks, replies, flutterSwiftCallbacks,
                   flutterSwiftCallbacksMutex, messenger, channel,
                   callbackBlock, savedCallbackBlock, released, before,
                   lastSet, lastSend, lastCall, fault>>

\* lines 65, 69: auto savedCallbackBlock = flutterSwiftCallbacks[channel]
SetLookup(t) ==
    /\ ~fault
    /\ pc[t] = "l65"
    /\ callbackBlock[t] = NULL
    /\ flutterSwiftCallbacks' = MapIndex(flutterSwiftCallbacks, channel[t])
    /\ savedCallbackBlock' =
           [savedCallbackBlock EXCEPT
               ![t] = MapIndex(flutterSwiftCallbacks, channel[t])[channel[t]]]
    /\ pc' = [pc EXCEPT ![t] = "l70"]
    /\ UNCHANGED <<blocks, replies, flutterSwiftCallbacksMutex, engineCallbacks,
                   messenger, channel, callbackBlock, released, registered,
                   before, lastSet, lastSend, lastCall, fault>>

\* line 70
SetErase(t) ==
    /\ ~fault
    /\ pc[t] = "l70"
    /\ flutterSwiftCallbacks' = MapErase(flutterSwiftCallbacks, channel[t])
    /\ pc' = [pc EXCEPT ![t] = "l71"]
    /\ UNCHANGED <<blocks, replies, flutterSwiftCallbacksMutex, engineCallbacks,
                   messenger, channel, callbackBlock, savedCallbackBlock,
                   released, registered, before, lastSet, lastSend, lastCall,
                   fault>>

\* (mutant) the saved pointer is not the one released.
ClearReleasedNothing(saved) == NULL

\* line 71: the pointer handed to _Block_release
ClearReleased(saved) == saved

\* line 71
SetRelease(t) ==
    /\ ~fault
    /\ pc[t] = "l71"
    /\ blocks' = BlockRelease(blocks, ClearReleased(savedCallbackBlock[t]),
                              channel[t])
    /\ released' = [released EXCEPT ![t] = ClearReleased(savedCallbackBlock[t])]
    /\ pc' = [pc EXCEPT ![t] = "l72"]
    /\ UNCHANGED <<replies, flutterSwiftCallbacks, flutterSwiftCallbacksMutex,
                   engineCallbacks, messenger, channel, callbackBlock,
                   savedCallbackBlock, registered, before, lastSet, lastSend,
                   lastCall, fault>>

\* line 72
SetUnregister(t) ==
    /\ ~fault
    /\ pc[t] = "l72"
    /\ engineCallbacks' =
           EngineSetCallback(engineCallbacks, messenger[t], channel[t],
                             NullFn, NULL)
    /\ registered' = [registered EXCEPT ![t] = NoReg]
    /\ pc' = [pc EXCEPT ![t] = "l74"]
    /\ UNCHANGED <<blocks, replies, flutterSwiftCallbacks,
                   flutterSwiftCallbacksMutex, messenger, channel,
                   callbackBlock, savedCallbackBlock, released, before,
                   lastSet, lastSend, lastCall, fault>>

\* line 74: the guard's destructor unlocks; the call returns.
SetReturn(t) ==
    /\ ~fault
    /\ pc[t] = "l74"
    /\ flutterSwiftCallbacksMutex' = "free"
    /\ lastSet' = [lastSet EXCEPT
                      ![channel[t]] = [messenger |-> messenger[t],
                                       block |-> callbackBlock[t]]]
    /\ pc' = [pc EXCEPT ![t] = "idle"]
    /\ messenger' = [messenger EXCEPT ![t] = "none"]
    /\ channel' = [channel EXCEPT ![t] = "none"]
    /\ callbackBlock' = [callbackBlock EXCEPT ![t] = NULL]
    /\ savedCallbackBlock' = [savedCallbackBlock EXCEPT ![t] = NULL]
    /\ released' = [released EXCEPT ![t] = NotCalled]
    /\ registered' = [registered EXCEPT ![t] = NotCalled]
    /\ before' = [before EXCEPT ![t] = NoBefore]
    /\ UNCHANGED <<blocks, replies, flutterSwiftCallbacks, engineCallbacks,
                   lastSend, lastCall, fault>>

-----------------------------------------------------------------------------
\* (mutant) the thunk calls the handler without the engine's messenger.
ThunkDropsMessenger(m, msg, user_data) ==
    [block |-> user_data, bmessenger |-> "none", bmessage |-> msg]

\* FlutterDesktopMessageCallbackThunk (lines 52-58): the call it makes.
FlutterDesktopMessageCallbackThunk(m, msg, user_data) ==
    [block |-> user_data, bmessenger |-> m, bmessage |-> msg]

\* The call an inbound message msg on channel ch of messenger m leads to
\* with the engine's registrations ec: the registered function is called
\* with the registered user_data; no call when none is registered.
NoInvocation == [block |-> NULL, bmessenger |-> "none", bmessage |-> "none"]

InboundCall(ec, m, ch, msg) ==
    IF ec[m][ch].fn = CallbackThunkFn
    THEN FlutterDesktopMessageCallbackThunk(m, msg, ec[m][ch].ctx)
    ELSE NoInvocation

\* The engine delivers inbound message msg on channel ch of messenger m.
\* Calling a block that may no longer be there (a released heap block, a
\* stack block whose scope the caller may have left) is undefined: the call
\* goes through, or the process crashes.
EngineDispatch(m, ch, msg) ==
    /\ ~fault
    /\ LET call == InboundCall(engineCallbacks, m, ch, msg)
       IN \/ /\ call = NoInvocation
             /\ lastCall' = [NoCall EXCEPT !.dropped = TRUE]
             /\ UNCHANGED fault
          \/ /\ call # NoInvocation
             /\ lastCall' = [invoked |-> TRUE, dropped |-> FALSE,
                             forwarded |-> /\ call.bmessenger = m
                                           /\ call.bmessage = msg,
                             callable |-> Callable(blocks, call.block),
                             retained |-> Retained(blocks, BlockCopyResult(call.block))]
             /\ UNCHANGED fault
          \/ /\ call # NoInvocation
             /\ ~Callable(blocks, call.block)
             /\ fault' = TRUE
             /\ UNCHANGED lastCall
    /\ UNCHANGED <<blocks, replies, flutterSwiftCallbacks,
                   flutterSwiftCallbacksMutex, engineCallbacks, setVars,
                   lastSend>>

-----------------------------------------------------------------------------
\* The reply adapter: sends and the engine's reply deliveries.
NextReply ==
    \/ \E ok \in BOOLEAN : SendNoReply(ok)
    \/ \E onStack \in BOOLEAN, ok \in BOOLEAN : SendReply(onStack, ok)
    \/ \E i \in 1..Len(replies) : ReplyThunkCall(i)
    \/ \E i \in 1..Len(replies) : ReplyThunkRelease(i)

\* The callers of the channel callback registry: threads Ts making set
\* calls through the messengers Ms on the channels Cs.
NextSet(Ts, Ms, Cs) ==
    \/ \E t \in Ts, m \in Ms, ch \in Cs : SetCallNull(t, m, ch)
    \/ \E t \in Ts, m \in Ms, ch \in Cs, onStack \in BOOLEAN :
           SetCallNew(t, m, ch, onStack)
    \/ \E t \in Ts, m \in Ms, ch \in Cs, k \in 1..Len(blocks) :
           SetCallSame(t, m, ch, k)
    \/ \E t \in Ts : SetStore(t)
    \/ \E t \in Ts : SetRegister(t)
    \/ \E t \in Ts : SetLookup(t)
    \/ \E t \in Ts : SetErase(t)
    \/ \E t \in Ts : SetRelease(t)
    \/ \E t \in Ts : SetUnregister(t)
    \/ \E t \in Ts : SetReturn(t)

\* The engine's inbound messages on the channels Cs of the messengers Ms.
NextInbound(Ms, Cs) ==
    \E m \in Ms, ch \in Cs, msg \in Messages : EngineDispatch(m, ch, msg)

\* The program of one engine instance: both adapters, one messenger, the
\* callers on any thread.
Next ==
    NextReply \/ NextSet(Threads, {"M1"}, Channels)
              \/ NextInbound({"M1"}, Channels)

Spec == Init /\ [][Next]_vars

\* The reply adapter alone.
SpecReply == Init /\ [][NextReply]_vars

\* The set calls alone (one engine instance, its callers on one thread).
\* An inbound message changes nothing a set call reads but fault, which
\* only stops the program, so what the set calls do to the table, the
\* reference counts and the engine's registrations is all here.
NextCallers == NextSet({"t1"}, {"M1"}, Channels)

SpecCallers == Init /\ [][NextCallers]_vars

\* The registry with the engine's inbound messages: one engine instance,
\* its callers on one thread.
NextRegistry ==
    NextSet({"t1"}, {"M1"}, Channels) \/ NextInbound({"M1"}, Channels)

SpecRegistry == Init /\ [][NextRegistry]_vars

\* The registry with callers on two threads.
NextThreads ==
    NextSet(Threads, {"M1"}, Channels) \/ NextInbound({"M1"}, Channels)

SpecThreads == Init /\ [][NextThreads]_vars

\* The registry with two engine instances sharing one channel name, the
\* callers on one thread.
NextMessengers ==
    NextSet({"t1"}, Messengers, {"a"}) \/ NextInbound(Messengers, {"a"})

SpecMessengers == Init /\ [][NextMessengers]_vars

\* One channel of one engine instance: the set calls on it (from one
\* thread) and the engine's inbound messages on it, at any point of a call.
NextInboundChannel ==
    NextSet({"t1"}, {"M1"}, {"a"}) \/ NextInbound({"M1"}, {"a"})

SpecInbound == Init /\ [][NextInboundChannel]_vars

\* Both adapters in one program: one caller thread making sends with a
\* reply handler and set calls on one channel, one call after the other,
\* and the engine delivering replies at any time, during a set call too.
\* (A send without a reply handler takes no reference and registers nothing.)
NextAdapters ==
    \/ \E onStack \in BOOLEAN, ok \in BOOLEAN :
           pc["t1"] = "idle" /\ SendReply(onStack, ok)
    \/ \E i \in 1..Len(replies) : ReplyThunkCall(i)
    \/ \E i \in 1..Len(replies) : ReplyThunkRelease(i)
    \/ NextSet({"t1"}, {"M1"}, {"a"})

SpecAdapters == Init /\ [][NextAdapters]_vars

\* The statements of the body of FlutterDesktopMessengerSetCallbackBlock
\* (lines 65-74) as thread t runs them.
SetBody(t) ==
    \/ SetStore(t)
    \/ SetRegister(t)
    \/ SetLookup(t)
    \/ SetErase(t)
    \/ SetRelease(t)
    \/ SetUnregister(t)
    \/ SetReturn(t)

\* Callers on both threads contending for the mutex with calls on one
\* channel (one engine instance).  The mutex is one for all channels, so
\* the channel a call names plays no part in who gets it.
NextContend ==
    \/ \E t \in Threads, ch \in {"a"} : CallNull(t, "M1", ch)
    \/ \E t \in Threads, ch \in {"a"}, onStack \in BOOLEAN :
           CallNew(t, "M1", ch, onStack)
    \/ \E t \in Threads, ch \in {"a"}, k \in 1..Len(blocks) :
           CallSame(t, "M1", ch, k)
    \/ \E t \in Threads : Lock(t)
    \/ \E t \in Threads : SetBody(t)

\* A thread that can take a step of a call it has made takes it in the end
\* (the scheduler runs every runnable thread).  Nothing is assumed about
\* which waiter gets a contended mutex.
SpecContend ==
    /\ Init
    /\ [][NextContend]_vars
    /\ \A t \in Threads : WF_vars(Lock(t) \/ SetBody(t))

-----------------------------------------------------------------------------
\* Properties.

\* No set call is in progress.
Quiescent == \A t \in Threads : pc[t] = "idle"

\* The heap objects holding a reference taken for channel ch.
LiveObjects(bs, ch) == {k \in 1..Len(bs) : bs[k].held[ch] > 0}

\* In state b (a snapshot) channel ch is as one install leaves it: the
\* table holds one heap object for it, retained once, and nothing else
\* promoted for the channel is live.
InstalledOnce(b, ch) ==
    /\ b.table[ch].kind = "heap"
    /\ LiveObjects(b.blocks, ch) = {b.table[ch].id}
    /\ b.blocks[b.table[ch].id].held[ch] = 1

\* C1: a send with a non-null reply handler that the primitive reports as
\* failed leaves the promoted handle released (reference count back to
\* zero), and the handler is never registered for invocation.
C1_FailedSendReleasesHandle ==
    (lastSend.calls = 1 /\ ~lastSend.ok /\ lastSend.replyBlock # NULL)
        => /\ Rc(blocks, lastSend.ctx.id) = 0
           /\ \A i \in 1..Len(replies) : replies[i].ctx # lastSend.ctx

\* C2: however often the reply thunk is invoked for one successful send,
\* the handler body has run exactly once and the promoted handle has been
\* released exactly once (its one reference is gone, no more).
C2_ReplyHandlerRunsOnce ==
    \A i \in 1..Len(replies) :
        (replies[i].deliveries >= 1 /\ replies[i].pc = "wait")
            => /\ replies[i].invoked = 1
               /\ Rc(blocks, replies[i].ctx.id) = 0

\* C3: after a completed non-null set on a channel exactly one promoted
\* handler object is live for that channel (a replaced handler's object has
\* been released).
C3_ReplaceLeavesOneLive ==
    \A ch \in Channels :
        (Quiescent /\ lastSet[ch].block # NULL)
            => Cardinality(LiveObjects(blocks, ch)) = 1

\* C4: a clear of a channel holding one installed handler ends with no
\* live promoted handler object for the channel, no table entry for it, and
\* the engine's registration reset by a call with null function and null
\* context.
C4_ClearReleasesInstalled ==
    \A t \in Threads :
        (pc[t] = "l74" /\ callbackBlock[t] = NULL
                       /\ InstalledOnce(before[t], channel[t]))
            => /\ LiveObjects(blocks, channel[t]) = {}
               /\ flutterSwiftCallbacks[channel[t]] = Absent
               /\ registered[t] = NoReg
               /\ engineCallbacks[messenger[t]][channel[t]] = NoReg

C4_Witness ==
    \E t \in Threads :
        /\ pc[t] = "l74" /\ callbackBlock[t] = NULL
        /\ InstalledOnce(before[t], channel[t])
        /\ released[t].kind = "heap"
        /\ before[t].engine[messenger[t]][channel[t]].fn = CallbackThunkFn
        /\ Rc(blocks, released[t].id) = 0

\* C5: with no set call in progress, an inbound message on a channel
\* invokes the handler of the most recent set on it, with the messenger and
\* message the engine supplied, and no handler if that set was a clear.
C5_InboundReachesLatestHandler ==
    [][\A ch \in Channels, msg \in Messages :
           (Quiescent /\ EngineDispatch("M1", ch, msg))
               => /\ ~fault'
                  /\ IF lastSet[ch].block = NULL
                     THEN ~lastCall'.invoked
                     ELSE /\ lastCall'.invoked
                          /\ lastCall'.forwarded
                          /\ InboundCall(engineCallbacks, "M1", ch, msg).block.id
                                 = lastSet[ch].block.id]_vars

\* The heap object a call on the channel of thread t installs or clears.
CallObject(t) ==
    IF callbackBlock[t] # NULL
    THEN BlockCopyResult(callbackBlock[t])
    ELSE before[t].table[channel[t]]

\* C6 (as claimed): a set call on a channel leaves, for every other
\* channel, the table entry, the reference count of the handler stored for
\* it and the engine's registration unchanged.
C6_OtherChannelsUntouched ==
    \A t \in Threads : \A b \in Channels :
        (pc[t] # "idle" /\ b # channel[t])
            => /\ flutterSwiftCallbacks[b] = before[t].table[b]
               /\ \A m \in Messengers :
                      engineCallbacks[m][b] = before[t].engine[m][b]
               /\ flutterSwiftCallbacks[b].kind = "heap"
                      => Rc(blocks, flutterSwiftCallbacks[b].id)
                             = Rc(before[t].blocks, flutterSwiftCallbacks[b].id)

\* C6 (amended): ... the reference count of the handler stored for the
\* other channel is unchanged unless that same object is the one the call
\* installs or clears; then it changes by the one reference taken or
\* dropped for the call's own channel, the reference held for the other
\* channel stays, and the count stays positive.
C6_OtherChannelsKeepTheirReference ==
    \A t \in Threads : \A b \in Channels :
        (pc[t] # "idle" /\ b # channel[t])
            => /\ flutterSwiftCallbacks[b] = before[t].table[b]
               /\ \A m \in Messengers :
                      engineCallbacks[m][b] = before[t].engine[m][b]
               /\ flutterSwiftCallbacks[b].kind = "heap"
                      => LET k == flutterSwiftCallbacks[b].id
                             d == Rc(blocks, k) - Rc(before[t].blocks, k)
                         IN /\ d \in {-1, 0, 1}
                            /\ CallObject(t) # HeapPtr(k) => d = 0
                            /\ blocks[k].held[b] = before[t].blocks[k].held[b]
                            /\ Rc(blocks, k) >= 1

C6_Witness ==
    \E t \in Threads : \E b \in Channels :
        /\ pc[t] = "l74" /\ b # channel[t]
        /\ flutterSwiftCallbacks[b].kind = "heap"
        /\ CallObject(t) = flutterSwiftCallbacks[b]
        /\ Rc(blocks, flutterSwiftCallbacks[b].id)
               # Rc(before[t].blocks, flutterSwiftCallbacks[b].id)

\* C7: a send with a null reply handler calls the primitive once with a
\* null function pointer and a null context, promotes and releases
\* nothing, and returns the primitive's result; a send with a handler
\* returns the primitive's result too.
C7_NullReplySend ==
    [][/\ \A ok \in BOOLEAN :
              SendNoReply(ok)
                  => /\ lastSend'.calls = 1
                     /\ lastSend'.fn = NullFn
                     /\ lastSend'.ctx = NULL
                     /\ lastSend'.ret = ok
                     /\ blocks' = blocks
                     /\ replies' = replies
       /\ \A onStack \in BOOLEAN, ok \in BOOLEAN :
              SendReply(onStack, ok) => lastSend'.ret = ok]_vars

C7_Witness ==
    /\ lastSend.calls = 1
    /\ lastSend.replyBlock = NULL
    /\ lastSend.fn = NullFn /\ lastSend.ctx = NULL
    /\ ~lastSend.ok /\ ~lastSend.ret
    /\ Len(blocks) > 0

\* C8: after a non-null set has registered with the engine, the context
\* the engine holds for the channel is the promoted object stored in the
\* table for the channel.
C8_EngineHoldsPromotedObject ==
    \A t \in Threads :
        (pc[t] = "l74" /\ callbackBlock[t] # NULL)
            => /\ registered[t].ctx = flutterSwiftCallbacks[channel[t]]
               /\ engineCallbacks[messenger[t]][channel[t]].ctx
                      = flutterSwiftCallbacks[channel[t]]

\* C9: the engine dispatching only through its current registration (so
\* never after an unregister call has returned), no channel thunk call
\* reaches a handler whose promoted object the registry has released.
C9_NoCallAfterRelease ==
    lastCall.invoked => lastCall.retained

\* C10: a clear of a channel with no table entry leaves the table as it
\* was, performs no release on any object or placeholder, and makes only
\* the engine's unregister call (null function, null context).
C10_ClearOfAbsentIsNoOp ==
    \A t \in Threads :
        (pc[t] = "l74" /\ callbackBlock[t] = NULL
                       /\ before[t].table[channel[t]] = Absent)
            => /\ flutterSwiftCallbacks = before[t].table
               /\ blocks = before[t].blocks
               /\ released[t] = NotCalled
               /\ registered[t] = NoReg

\* The statements of the body of a set call (lines 65-74).
Body == {"l65", "l67", "l70", "l71", "l72", "l74"}

\* No thread makes a new call in this step.
NoNewCall == \A t \in Threads : pc[t] = "idle" => pc'[t] = "idle"

\* C11: a thread is in the body of a set call exactly when it holds the
\* mutex (so at most one is); every step that reads or writes the table
\* (insert, lookup, erase) is taken by the thread holding the mutex; the
\* return releases the mutex; and once no new calls are made, all calls
\* made complete and the mutex is left free.
C11_TableUnderLock ==
    /\ [](\A t \in Threads : pc[t] \in Body <=> flutterSwiftCallbacksMutex = t)
    /\ [][/\ \A t \in Threads :
                 (SetStore(t) \/ SetLookup(t) \/ SetErase(t))
                     => /\ flutterSwiftCallbacksMutex = t
                        /\ flutterSwiftCallbacksMutex' = t
          /\ flutterSwiftCallbacks' # flutterSwiftCallbacks
                 => /\ flutterSwiftCallbacksMutex \in Threads
                    /\ flutterSwiftCallbacksMutex' = flutterSwiftCallbacksMutex
          /\ \A t \in Threads :
                 SetReturn(t) => /\ flutterSwiftCallbacksMutex' = "free"
                                 /\ pc'[t] = "idle"]_vars
    /\ <>[][NoNewCall]_vars
           => <>[](Quiescent /\ flutterSwiftCallbacksMutex = "free")

\* One thread is in the body while the other waits at line 64 for the mutex.
C11_Witness ==
    \E t, u \in Threads :
        /\ pc[t] = "l70" /\ flutterSwiftCallbacksMutex = t
        /\ pc[u] = "l64" /\ channel[u] = channel[t]
        /\ callbackBlock[u] # NULL

\* C12 (as claimed): in every state the table has an entry for a channel
\* exactly when the last completed set on the channel passed a handler.
C12_EntryInEveryState ==
    \A ch \in Channels :
        flutterSwiftCallbacks[ch] # Absent <=> lastSet[ch].block # NULL

\* C12 (amended): between calls (the mutex free) the table has an entry for a channel
\* exactly when the last completed set on the channel passed a handler, and
\* the entry is that handler's promoted object; a call with a handler
\* returns with the channel Installed (from Absent or from Installed), a
\* call without one returns with it Absent (from Installed or from Absent).
C12_EntryFollowsLastSet ==
    /\ flutterSwiftCallbacksMutex = "free"
           => \A ch \in Channels :
                  /\ flutterSwiftCallbacks[ch] # Absent
                         <=> lastSet[ch].block # NULL
                  /\ flutterSwiftCallbacks[ch] # Absent
                         => /\ flutterSwiftCallbacks[ch].kind = "heap"
                            /\ flutterSwiftCallbacks[ch]
                                   = BlockCopyResult(lastSet[ch].block)
    /\ \A t \in Threads :
           pc[t] = "l74"
               => IF callbackBlock[t] # NULL
                  THEN /\ flutterSwiftCallbacks[channel[t]].kind = "heap"
                       /\ flutterSwiftCallbacks[channel[t]]
                              = BlockCopyResult(callbackBlock[t])
                  ELSE flutterSwiftCallbacks[channel[t]] = Absent

\* A handler has replaced another on a channel while the other channel,
\* cleared before, has no entry.
C12_Witness ==
    \E t \in Threads : \E b \in Channels :
        /\ pc[t] = "l74" /\ callbackBlock[t] # NULL
        /\ before[t].table[channel[t]].kind = "heap"
        /\ before[t].table[channel[t]] # flutterSwiftCallbacks[channel[t]]
        /\ b # channel[t]
        /\ flutterSwiftCallbacks[b] = Absent
        /\ lastSet[b].messenger # "none"

\* The number of table entries that refer to heap object k.
Entries(mp, k) == Cardinality({ch \in Channels : mp[ch] = HeapPtr(k)})

\* C13: every object a table entry refers to is a heap object whose
\* reference count is at least the number of entries referring to it (one
\* reference per entry, held for that entry's channel), so no entry refers
\* to a deallocated object.
C13_TableOwnsItsReferences ==
    /\ \A ch \in Channels :
           flutterSwiftCallbacks[ch] \notin {Absent, NULL}
               => /\ flutterSwiftCallbacks[ch].kind = "heap"
                  /\ blocks[flutterSwiftCallbacks[ch].id].held[ch] >= 1
    /\ \A k \in 1..Len(blocks) :
           Rc(blocks, k) >= Entries(flutterSwiftCallbacks, k)

\* One object is referred to by both entries, and a clear has just released
\* it for one channel.
C13_Witness ==
    \E t \in Threads : \E k \in 1..Len(blocks) :
        /\ pc[t] = "l72"
        /\ released[t] = HeapPtr(k)
        /\ before[t].table = [ch \in Channels |-> HeapPtr(k)]
        /\ Entries(flutterSwiftCallbacks, k) = 1
        /\ Rc(blocks, k) = 1

\* C14: a promoted reply handle whose reply thunk has not run holds its one
\* reference (for as long as no reply arrives); the only step that lowers
\* the count of a reply handle is line 30 of the reply thunk run for that
\* handle, after the thunk has called the handler (line 29).
C14_ReplyHandleHeldUntilThunk ==
    /\ [](\A i \in 1..Len(replies) :
              replies[i].deliveries = 0
                  => /\ Retained(blocks, replies[i].ctx)
                     /\ blocks[replies[i].ctx.id].held[ReplyOwner] = 1)
    /\ [][\A k \in 1..Len(blocks) :
              (/\ blocks[k].type = "reply"
               /\ blocks'[k].held # blocks[k].held
               /\ Rc(blocks', k) < Rc(blocks, k))
                  => \E i \in 1..Len(replies) :
                         /\ ReplyThunkRelease(i)
                         /\ replies[i].ctx = HeapPtr(k)
                         /\ replies[i].deliveries >= 1
                         /\ replies[i].invoked = replies[i].deliveries]_vars

\* A reply handle waits for its reply, still retained, while a clear has
\* released a channel handler.
C14_Witness ==
    \E i \in 1..Len(replies) : \E t \in Threads :
        /\ replies[i].deliveries = 0
        /\ Rc(blocks, replies[i].ctx.id) = 1
        /\ pc[t] = "l72"
        /\ released[t].kind = "heap"
        /\ Rc(blocks, released[t].id) = 0

\* C15: a step in which the engine calls the channel thunk leaves the table,
\* every reference count and the engine's registrations as they were; the
\* call the thunk makes is to its context, with the messenger and message
\* the engine passed; and when the context is a live handler the call is
\* made.
C15_ThunkForwardsOnly ==
    [][\A m \in Messengers, ch \in Channels, msg \in Messages :
           ((lastCall' # lastCall \/ fault') /\ EngineDispatch(m, ch, msg))
               => /\ flutterSwiftCallbacks' = flutterSwiftCallbacks
                  /\ blocks' = blocks
                  /\ engineCallbacks' = engineCallbacks
                  /\ engineCallbacks[m][ch].fn = CallbackThunkFn
                         => LET call == InboundCall(engineCallbacks, m, ch, msg)
                            IN /\ call.block = engineCallbacks[m][ch].ctx
                               /\ call.bmessenger = m
                               /\ call.bmessage = msg
                               /\ ~fault' => /\ lastCall'.invoked
                                             /\ lastCall'.forwarded
                               /\ Callable(blocks, call.block) => ~fault']_vars

\* An inbound message has been forwarded to the installed handler, which is
\* still in the table and retained, with no set call in progress.
C15_Witness ==
    /\ Quiescent
    /\ lastCall.invoked /\ lastCall.forwarded /\ lastCall.retained
    /\ flutterSwiftCallbacks["a"].kind = "heap"
    /\ Rc(blocks, flutterSwiftCallbacks["a"].id) = 1
    /\ engineCallbacks["M1"]["a"].fn = CallbackThunkFn
    /\ BlockCopyResult(engineCallbacks["M1"]["a"].ctx) = flutterSwiftCallbacks["a"]

\* C16: with no set call in progress, for every messenger and channel for
\* which the engine has the channel thunk registered, the handler installed
\* through that messenger is the one the table holds for the channel, and
\* it is retained.
C16_PerMessengerLifetime ==
    Quiescent
        => \A m \in Messengers, ch \in Channels :
               engineCallbacks[m][ch].fn = CallbackThunkFn
                   => /\ flutterSwiftCallbacks[ch]
                             = BlockCopyResult(engineCallbacks[m][ch].ctx)
                      /\ Retained(blocks,
                                  BlockCopyResult(engineCallbacks[m][ch].ctx))

\* The table and the engine agree on channel ch of messenger M1, and both
\* have what a call with handler cb leaves: an entry and the thunk, for
\* cb's object, or neither.
Agree(ch, cb) ==
    IF cb # NULL
    THEN /\ flutterSwiftCallbacks[ch] = BlockCopyResult(cb)
         /\ engineCallbacks["M1"][ch] = [fn |-> CallbackThunkFn, ctx |-> cb]
    ELSE /\ flutterSwiftCallbacks[ch] = Absent
         /\ engineCallbacks["M1"][ch] = NoReg

\* C17: with calls from two threads contending, at the end of each call's
\* critical section the table and the engine agree on the call's channel
\* and both show that call; once all calls have returned they agree on
\* every channel (an entry exactly when the thunk is registered) and both
\* show the call that returned last.
C17_RegistryAndEngineAgree ==
    /\ \A t \in Threads : pc[t] = "l74" => Agree(channel[t], callbackBlock[t])
    /\ Quiescent
           => \A ch \in Channels :
                  /\ Agree(ch, lastSet[ch].block)
                  /\ flutterSwiftCallbacks[ch] # Absent
                         <=> engineCallbacks["M1"][ch].fn = CallbackThunkFn

\* A call that replaced a handler is at its end while the other thread
\* waits at line 64 with a clear of the same channel.
C17_Witness ==
    \E t, u \in Threads :
        /\ pc[t] = "l74" /\ callbackBlock[t] # NULL
        /\ before[t].table[channel[t]].kind = "heap"
        /\ before[t].table[channel[t]] # BlockCopyResult(callbackBlock[t])
        /\ pc[u] = "l64" /\ channel[u] = channel[t]
        /\ callbackBlock[u] = NULL

\* C18: as long as the engine has delivered no reply more than once, no
\* object has had more releases than promotions: every reference count,
\* and every owner's share of it, is at least zero.
C18_NoOverRelease ==
    (\A i \in 1..Len(replies) : replies[i].deliveries <= 1)
        => \A k \in 1..Len(blocks) :
               /\ Rc(blocks, k) >= 0
               /\ \A o \in Owners : blocks[k].held[o] >= 0

\* A reply handle has been released by its thunk after one delivery and a
\* clear of an empty channel has passed the null placeholder to
\* _Block_release, after a clear that released the installed handler.
C18_Witness ==
    \E i \in 1..Len(replies) : \E t \in Threads : \E k \in 1..Len(blocks) :
        /\ replies[i].deliveries = 1 /\ replies[i].pc = "wait"
        /\ Rc(blocks, replies[i].ctx.id) = 0
        /\ pc[t] = "l72" /\ released[t] = NULL
        /\ blocks[k].type = "handler" /\ Rc(blocks, k) = 0
        /\ lastSet["a"].messenger # "none" /\ lastSet["a"].block = NULL

====
